---- MODULE Spec2Model ----
(***************************************************************************)
(* Plugin provisioning of pkg/plugins/plugins.go: SetupRemotePlugins       *)
(* (validation, CleanArchives, per-plugin Download/Check/Unzip, removal of *)
(* unavailable plugins, WriteState) and SetupLocalPlugins.                 *)
(*                                                                         *)
(* Strings the code inspects (module names, import paths) are sequences of *)
(* one-character strings, so that HasPrefix/HasSuffix are computed.        *)
(* Go's range over a map visits the keys in an unspecified order: every    *)
(* loop below picks the next key among the ones not yet visited.           *)
(***************************************************************************)
EXTENDS Naturals, Sequences, FiniteSets, TLC

\* ------------------------------------------------------------------ bounds

\* Largest number of entries of a plugin mapping.
MaxPlugins == 2

AliasNames == <<"a", "b", "c", "d", "e">>

Aliases == {AliasNames[i] : i \in 1..MaxPlugins}

\* Module names the mappings draw from: "", "/", "f", "g", "/f", "f/", "f/g".
ModuleNames ==
    { <<>>, <<"/">>, <<"f">>, <<"g">>, <<"/", "f">>, <<"f", "/">>,
      <<"f", "/", "g">> }

Versions == {"", "v1"}

Hashes == {"h1"}

\* map[string]Descriptor values.
Descriptors == [ModuleName : ModuleNames, Version : Versions, Required : BOOLEAN]

\* map[string]LocalDescriptor values.
LocalDescriptors == [ModuleName : ModuleNames]

EmptyMap == [a \in {} |-> <<>>]

RemoteMappings == UNION {[D -> Descriptors] : D \in SUBSET Aliases}

LocalMappings == UNION {[D -> LocalDescriptors] : D \in SUBSET Aliases}

\* ----------------------------------------------------------------- strings

\* strings.HasPrefix(s, prefix)
HasPrefix(s, prefix) ==
    /\ Len(s) >= Len(prefix)
    /\ SubSeq(s, 1, Len(prefix)) = prefix

\* strings.HasSuffix(s, suffix)
HasSuffix(s, suffix) ==
    /\ Len(s) >= Len(suffix)
    /\ SubSeq(s, Len(s) - Len(suffix) + 1, Len(s)) = suffix

Slash == <<"/">>

\* The orders in which a range over the keys S may visit them.
Orders(S) ==
    {o \in [1..Cardinality(S) -> S] : \A i, j \in 1..Cardinality(S) : o[i] = o[j] => i = j}

\* One message of an aggregated error: the format string and its arguments.
Violation(msg, pAlias, module) == [msg |-> msg, alias |-> pAlias, module |-> module]


\* ------------------------------------------------------------- validation

\* checkRemoteEntry with line 106 lost: no module name is ever registered.
checkRemoteEntryNoRegister(pAlias, descriptor, acc) ==
    LET e1 == IF descriptor.ModuleName = <<>>
              THEN Append(acc.errs, Violation("plugin name is missing", pAlias, <<>>))
              ELSE acc.errs
        e2 == IF descriptor.Version = ""
              THEN Append(e1, Violation("plugin version is missing", pAlias, <<>>))
              ELSE e1
    IN  IF HasPrefix(descriptor.ModuleName, Slash) \/ HasSuffix(descriptor.ModuleName, Slash)
        THEN [uniq |-> acc.uniq,
              errs |-> Append(e2, Violation("plugin name should not start or end with a /",
                                            pAlias, <<>>))]
        ELSE IF descriptor.ModuleName \in acc.uniq
        THEN [uniq |-> acc.uniq,
              errs |-> Append(e2, Violation("only one version of a plugin is allowed, there is a duplicate",
                                            "", descriptor.ModuleName))]
        ELSE [uniq |-> acc.uniq, errs |-> e2]

\* checkRemoteEntry with the version test of lines 92-94 lost.
checkRemoteEntryNoVersion(pAlias, descriptor, acc) ==
    LET e1 == IF descriptor.ModuleName = <<>>
              THEN Append(acc.errs, Violation("plugin name is missing", pAlias, <<>>))
              ELSE acc.errs
    IN  IF HasPrefix(descriptor.ModuleName, Slash) \/ HasSuffix(descriptor.ModuleName, Slash)
        THEN [uniq |-> acc.uniq,
              errs |-> Append(e1, Violation("plugin name should not start or end with a /",
                                            pAlias, <<>>))]
        ELSE IF descriptor.ModuleName \in acc.uniq
        THEN [uniq |-> acc.uniq,
              errs |-> Append(e1, Violation("only one version of a plugin is allowed, there is a duplicate",
                                            "", descriptor.ModuleName))]
        ELSE [uniq |-> acc.uniq \cup {descriptor.ModuleName}, errs |-> e1]

\* checkRemoteEntry with the continue of line 98 lost: an entry whose name
\* starts or ends with "/" goes on to the uniqueness test.
checkRemoteEntryNoContinue(pAlias, descriptor, acc) ==
    LET e1 == IF descriptor.ModuleName = <<>>
              THEN Append(acc.errs, Violation("plugin name is missing", pAlias, <<>>))
              ELSE acc.errs
        e2 == IF descriptor.Version = ""
              THEN Append(e1, Violation("plugin version is missing", pAlias, <<>>))
              ELSE e1
        e3 == IF HasPrefix(descriptor.ModuleName, Slash) \/ HasSuffix(descriptor.ModuleName, Slash)
              THEN Append(e2, Violation("plugin name should not start or end with a /",
                                        pAlias, <<>>))
              ELSE e2
    IN  IF descriptor.ModuleName \in acc.uniq
        THEN [uniq |-> acc.uniq,
              errs |-> Append(e3, Violation("only one version of a plugin is allowed, there is a duplicate",
                                            "", descriptor.ModuleName))]
        ELSE [uniq |-> acc.uniq \cup {descriptor.ModuleName}, errs |-> e3]

\* checkRemoteEntry with the duplicate message naming the alias of the entry
\* it was found at, as the other messages do.
checkRemoteEntryDuplicateNamesAlias(pAlias, descriptor, acc) ==
    LET e1 == IF descriptor.ModuleName = <<>>
              THEN Append(acc.errs, Violation("plugin name is missing", pAlias, <<>>))
              ELSE acc.errs
        e2 == IF descriptor.Version = ""
              THEN Append(e1, Violation("plugin version is missing", pAlias, <<>>))
              ELSE e1
    IN  IF HasPrefix(descriptor.ModuleName, Slash) \/ HasSuffix(descriptor.ModuleName, Slash)
        THEN [uniq |-> acc.uniq,
              errs |-> Append(e2, Violation("plugin name should not start or end with a /",
                                            pAlias, <<>>))]
        ELSE IF descriptor.ModuleName \in acc.uniq
        THEN [uniq |-> acc.uniq,
              errs |-> Append(e2, Violation("only one version of a plugin is allowed, there is a duplicate",
                                            pAlias, descriptor.ModuleName))]
        ELSE [uniq |-> acc.uniq \cup {descriptor.ModuleName}, errs |-> e2]

\* One iteration of the loop of checkRemotePluginsConfiguration over the entry
\* pAlias -> descriptor; acc holds the loop's uniq set and errs list.
checkRemoteEntry(pAlias, descriptor, acc) ==
    LET e1 == IF descriptor.ModuleName = <<>>
              THEN Append(acc.errs, Violation("plugin name is missing", pAlias, <<>>))
              ELSE acc.errs
        e2 == IF descriptor.Version = ""
              THEN Append(e1, Violation("plugin version is missing", pAlias, <<>>))
              ELSE e1
    IN  IF HasPrefix(descriptor.ModuleName, Slash) \/ HasSuffix(descriptor.ModuleName, Slash)
        THEN [uniq |-> acc.uniq,
              errs |-> Append(e2, Violation("plugin name should not start or end with a /",
                                            pAlias, <<>>))]
        ELSE IF descriptor.ModuleName \in acc.uniq
        THEN [uniq |-> acc.uniq,
              errs |-> Append(e2, Violation("only one version of a plugin is allowed, there is a duplicate",
                                            "", descriptor.ModuleName))]
        ELSE [uniq |-> acc.uniq \cup {descriptor.ModuleName}, errs |-> e2]

RECURSIVE checkRemoteLoop(_, _, _)
checkRemoteLoop(plugins, order, acc) ==
    IF order = <<>> THEN acc
    ELSE checkRemoteLoop(plugins, Tail(order),
                         checkRemoteEntry(Head(order), plugins[Head(order)], acc))

\* checkRemotePluginsConfiguration(plugins), its range visiting the keys in
\* `order`: the list of messages joined into the error, <<>> for a nil error.
checkRemotePluginsConfiguration(nil, plugins, order) ==
    IF nil THEN <<>>
    ELSE checkRemoteLoop(plugins, order, [uniq |-> {}, errs |-> <<>>]).errs

\* ---------------------------------------------------------------- manifests

typeMiddleware == "middleware"

typeProvider == "provider"

runtimeYaegi == "yaegi"

runtimeWasm == "wasm"

\* Manifest values: Import is a path, TestData is nil or present.
Manifests ==
    [Type : {typeMiddleware, typeProvider, "other"},
     Runtime : {runtimeYaegi, runtimeWasm, "", "other"},
     Import : {<<>>, <<"f">>, <<"g">>},
     DisplayName : {"", "name"},
     Summary : {"", "summary"},
     HasTestData : BOOLEAN]

\* The manifests SetupLocalPlugins reads in the pipeline model: a valid
\* middleware, a provider on the wasm runtime, an unknown type with every
\* field missing, and a yaegi provider importing module g.
LocalManifests ==
    { [Type |-> typeMiddleware, Runtime |-> runtimeYaegi, Import |-> <<"f">>,
       DisplayName |-> "name", Summary |-> "summary", HasTestData |-> TRUE],
      [Type |-> typeProvider, Runtime |-> runtimeWasm, Import |-> <<>>,
       DisplayName |-> "name", Summary |-> "summary", HasTestData |-> TRUE],
      [Type |-> "other", Runtime |-> "", Import |-> <<>>,
       DisplayName |-> "", Summary |-> "", HasTestData |-> FALSE],
      [Type |-> typeProvider, Runtime |-> runtimeYaegi, Import |-> <<"g">>,
       DisplayName |-> "name", Summary |-> "", HasTestData |-> TRUE] }

\* ReadManifest(localGoPath, moduleName): a manifest, or an error.
ReadManifestResults == {[ok |-> FALSE]} \cup {[ok |-> TRUE, m |-> m] : m \in LocalManifests}

\* Manifest.IsYaegiPlugin
IsYaegiPlugin(m) == m.Runtime = runtimeYaegi

\* checkManifest with the provider case testing the runtimes of the
\* middleware case.
checkManifestProviderAsMiddleware(moduleName, m) ==
    LET e1 == IF m.Type = typeMiddleware
              THEN IF m.Runtime # runtimeYaegi /\ m.Runtime # runtimeWasm /\ m.Runtime # ""
                   THEN <<Violation("unsupported runtime", "", moduleName)>>
                   ELSE <<>>
              ELSE IF m.Type = typeProvider
              THEN IF m.Runtime # runtimeYaegi /\ m.Runtime # runtimeWasm /\ m.Runtime # ""
                   THEN <<Violation("unsupported runtime", "", moduleName)>>
                   ELSE <<>>
              ELSE <<Violation("unsupported type", "", moduleName)>>
        e2 == IF IsYaegiPlugin(m) /\ m.Import = <<>>
              THEN Append(e1, Violation("missing import", "", moduleName))
              ELSE e1
        e3 == IF IsYaegiPlugin(m) /\ ~HasPrefix(m.Import, moduleName)
              THEN Append(e2, Violation("the import must be related to the module name",
                                        "", moduleName))
              ELSE e2
        e4 == IF m.DisplayName = ""
              THEN Append(e3, Violation("missing DisplayName", "", moduleName))
              ELSE e3
        e5 == IF m.Summary = ""
              THEN Append(e4, Violation("missing Summary", "", moduleName))
              ELSE e4
    IN  IF ~m.HasTestData
        THEN Append(e5, Violation("missing TestData", "", moduleName))
        ELSE e5

\* Lines 155-194 of checkLocalPluginManifest, for the manifest m that
\* ReadManifest returned: the messages of the aggregated error.
checkManifest(moduleName, m) ==
    LET e1 == IF m.Type = typeMiddleware
              THEN IF m.Runtime # runtimeYaegi /\ m.Runtime # runtimeWasm /\ m.Runtime # ""
                   THEN <<Violation("unsupported runtime", "", moduleName)>>
                   ELSE <<>>
              ELSE IF m.Type = typeProvider
              THEN IF m.Runtime # runtimeYaegi /\ m.Runtime # ""
                   THEN <<Violation("unsupported runtime", "", moduleName)>>
                   ELSE <<>>
              ELSE <<Violation("unsupported type", "", moduleName)>>
        e2 == IF IsYaegiPlugin(m) /\ m.Import = <<>>
              THEN Append(e1, Violation("missing import", "", moduleName))
              ELSE e1
        e3 == IF IsYaegiPlugin(m) /\ ~HasPrefix(m.Import, moduleName)
              THEN Append(e2, Violation("the import must be related to the module name",
                                        "", moduleName))
              ELSE e2
        e4 == IF m.DisplayName = ""
              THEN Append(e3, Violation("missing DisplayName", "", moduleName))
              ELSE e3
        e5 == IF m.Summary = ""
              THEN Append(e4, Violation("missing Summary", "", moduleName))
              ELSE e4
    IN  IF ~m.HasTestData
        THEN Append(e5, Violation("missing TestData", "", moduleName))
        ELSE e5

\* checkLocalPluginManifest(descriptor), given what ReadManifest returns.
checkLocalPluginManifest(descriptor, read) ==
    IF ~read.ok
    THEN <<Violation("ReadManifest failed", "", descriptor.ModuleName)>>
    ELSE checkManifest(descriptor.ModuleName, read.m)

\* ------------------------------------------------------------ the Client

\* The plugin store holds, per module, an archive and unpacked sources; an
\* item that is present may be incomplete when the call writing it failed.
Archive(module) == <<module, "archive">>

Sources(module) == <<module, "sources">>

\* Client.CleanArchives(plugins): prunes the archives of modules the mapping
\* does not reference.
clientCleanArchives(st, plugins, ok) ==
    IF ok
    THEN {{it \in st : it[2] # "archive"
                       \/ \E a \in DOMAIN plugins : plugins[a].ModuleName = it[1]}}
    ELSE {st}

\* Client.Download: writes the module's archive; a failed download may leave
\* a partial one.
clientDownload(st, module, ok) ==
    IF ok THEN {st \cup {Archive(module)}} ELSE {st, st \cup {Archive(module)}}

\* Client.Check: reads the archive.
clientCheck(st, module, ok) == {st}

\* Client.Unzip: unpacks into the module's directory; a failed unpack may
\* leave a partial directory.
clientUnzip(st, module, ok) ==
    IF ok THEN {st \cup {Sources(module)}} ELSE {st, st \cup {Sources(module)}}

\* Client.ResetAll: wipes the store back to empty; a failed reset leaves
\* any part of it.
clientResetAll(st, ok) == IF ok THEN {{}} ELSE SUBSET st

\* Client.WriteState(plugins): replaces the durable state.
clientWriteState(dur, plugins, ok) == IF ok THEN <<plugins>> ELSE dur

\* ------------------------------------------------------------------ state

VARIABLES
    fn,                  \* the function called: "SetupRemotePlugins" or "SetupLocalPlugins"
    given,               \* the mapping as the caller built it (never assigned)
    isNil,               \* the caller passed a nil map
    plugins,             \* the caller's map[string]Descriptor, as it is now
    localPlugins,        \* the caller's map[string]LocalDescriptor
    pc,                  \* position in SetupRemotePlugins / SetupLocalPlugins
    todo,                \* keys the current range loop has yet to visit
    cur,                 \* pAlias of the current iteration
    hash,                \* hash returned by Download in the current iteration
    unavailablePlugins,  \* aliases recorded as unavailable
    uniq,                \* SetupLocalPlugins' uniq set
    errs,                \* messages of the validation error
    result,              \* the error returned
    calls,               \* the Client calls made, in order
    store,               \* the plugin store
    durable,             \* the persisted state: <<>> or <<mapping>>
    run,                 \* "first", or "second" for a second call in sequence
    durableBefore,       \* the persisted state when the current call started
    fate,                \* the outcomes the Client calls of this run will have
    manifest             \* the input of a lone checkLocalPluginManifest call

vars == <<fn, given, isNil, plugins, localPlugins, pc, todo, cur, hash,
          unavailablePlugins, uniq, errs, result, calls, store, durable,
          run, durableBefore, fate, manifest>>

\* What no step of a single SetupRemotePlugins or SetupLocalPlugins call
\* assigns.
aux == <<run, durableBefore, fate, manifest>>

NoAlias == ""

NoHash == ""

Running == [err |-> "running", module |-> <<>>]

Ok == [err |-> "nil", module |-> <<>>]

Error(msg, module) == [err |-> msg, module |-> module]

Call(op, pAlias, arg, ok) == [op |-> op, alias |-> pAlias, arg |-> arg, ok |-> ok]

ResetCall(ok) == Call("ResetAll", NoAlias, <<>>, ok)

\* An outcome that is not fixed in advance.
Free == "free"

\* The outcomes of a run's Client calls, ResetAll apart: whether CleanArchives
\* and WriteState succeed, and per alias the sub-step that fails ("none" when
\* all three succeed). Free leaves the outcome to the call itself.
FreeFate(m) == [clean |-> Free, write |-> Free, sub |-> [a \in DOMAIN m |-> Free]]

Fates(m) ==
    [clean : {"ok", "fail"}, write : {"ok", "fail"},
     sub : [DOMAIN m -> {"none", "Download", "Check", "Unzip"}]]

\* The fate lets CleanArchives (f = fate.clean) or WriteState (f =
\* fate.write) have the outcome ok.
Allows(f, ok) == f = Free \/ (ok <=> f = "ok")

\* The fate lets the sub-step op of pAlias, reached because the sub-steps
\* before it succeeded, have the outcome ok.
SubAllows(pAlias, op, ok) ==
    fate.sub[pAlias] = Free \/ (ok <=> fate.sub[pAlias] # op)

NoManifest == [moduleName |-> <<>>, read |-> [ok |-> FALSE]]

Init ==
    /\ \/ /\ fn = "SetupRemotePlugins"
          /\ pc = "start"
          /\ plugins \in RemoteMappings
          /\ localPlugins = EmptyMap
          /\ given = plugins
       \/ /\ fn = "SetupLocalPlugins"
          /\ pc = "local"
          /\ localPlugins \in LocalMappings
          /\ plugins = EmptyMap
          /\ given = localPlugins
    /\ isNil \in {b \in BOOLEAN : b => DOMAIN given = {}}
    /\ todo = IF pc = "local" THEN DOMAIN localPlugins ELSE {}
    /\ cur = NoAlias
    /\ hash = NoHash
    /\ unavailablePlugins = <<>>
    /\ uniq = {}
    /\ errs = <<>>
    /\ result = Running
    /\ calls = <<>>
    /\ store = {}
    /\ durable = <<>>
    /\ run = "first"
    /\ durableBefore = <<>>
    /\ fate = FreeFate(plugins)
    /\ manifest = NoManifest

\* ------------------------------------------------- SetupRemotePlugins

\* CheckConfiguration with the return of line 19 lost: the error is computed
\* and the run goes on.
CheckConfigurationGoesOn ==
    /\ pc = "start"
    /\ \E order \in Orders(DOMAIN plugins) :
         errs' = checkRemotePluginsConfiguration(isNil, plugins, order)
    /\ pc' = "clean"
    /\ UNCHANGED <<aux, fn, given, isNil, plugins, localPlugins, todo, cur, hash,
                   unavailablePlugins, uniq, result, calls, store, durable>>

\* Lines 17-20: validation; an error returns before any Client call.
CheckConfiguration ==
    /\ pc = "start"
    /\ \E order \in Orders(DOMAIN plugins) :
         LET e == checkRemotePluginsConfiguration(isNil, plugins, order)
         IN  /\ errs' = e
             /\ IF e # <<>>
                THEN result' = Error("invalid configuration", <<>>) /\ pc' = "done"
                ELSE pc' = "clean" /\ UNCHANGED result
    /\ UNCHANGED <<aux, fn, given, isNil, plugins, localPlugins, todo, cur, hash,
                   unavailablePlugins, uniq, calls, store, durable>>

\* CleanArchives with the error test of lines 23-25 lost.
CleanArchivesIgnoresError ==
    /\ pc = "clean"
    /\ \E ok \in BOOLEAN :
         /\ calls' = Append(calls, Call("CleanArchives", NoAlias, plugins, ok))
         /\ store' \in clientCleanArchives(store, plugins, ok)
    /\ pc' = "range"
    /\ todo' = DOMAIN plugins
    /\ UNCHANGED <<aux, fn, given, isNil, plugins, localPlugins, cur, hash,
                   unavailablePlugins, uniq, errs, result, durable>>

\* CleanArchives with a client.ResetAll() before the return of line 24.
CleanArchivesResets ==
    /\ pc = "clean"
    /\ \/ /\ Allows(fate.clean, TRUE)
          /\ calls' = Append(calls, Call("CleanArchives", NoAlias, plugins, TRUE))
          /\ store' \in clientCleanArchives(store, plugins, TRUE)
          /\ pc' = "range"
          /\ todo' = DOMAIN plugins
          /\ UNCHANGED result
       \/ \E rok \in BOOLEAN :
            /\ Allows(fate.clean, FALSE)
            /\ calls' = calls \o <<Call("CleanArchives", NoAlias, plugins, FALSE), ResetCall(rok)>>
            /\ \E st \in clientCleanArchives(store, plugins, FALSE) :
                 store' \in clientResetAll(st, rok)
            /\ result' = Error("unable to clean archives", <<>>)
            /\ pc' = "done"
            /\ UNCHANGED todo
    /\ UNCHANGED <<aux, fn, given, isNil, plugins, localPlugins, cur, hash,
                   unavailablePlugins, uniq, errs, durable>>

\* Lines 22-25: client.CleanArchives(plugins); then the range loop starts.
CleanArchives ==
    /\ pc = "clean"
    /\ \E ok \in BOOLEAN :
         /\ Allows(fate.clean, ok)
         /\ calls' = Append(calls, Call("CleanArchives", NoAlias, plugins, ok))
         /\ store' \in clientCleanArchives(store, plugins, ok)
         /\ IF ok
            THEN pc' = "range" /\ todo' = DOMAIN plugins /\ UNCHANGED result
            ELSE /\ result' = Error("unable to clean archives", <<>>)
                 /\ pc' = "done"
                 /\ UNCHANGED todo
    /\ UNCHANGED <<aux, fn, given, isNil, plugins, localPlugins, cur, hash,
                   unavailablePlugins, uniq, errs, durable>>

\* SubStepFailed with the Required test lost: every failure is treated as an
\* optional plugin's.
SubStepFailedNeverAborts(pAlias, desc, failed, st, msg, module) ==
    /\ \E rok \in BOOLEAN :
         /\ calls' = calls \o <<failed, ResetCall(rok)>>
         /\ store' \in clientResetAll(st, rok)
    /\ unavailablePlugins' = Append(unavailablePlugins, pAlias)
    /\ pc' = "range"
    /\ cur' = NoAlias
    /\ hash' = NoHash
    /\ UNCHANGED <<plugins, result>>

\* SubStepFailed with the append to unavailablePlugins lost.
SubStepFailedForgets(pAlias, desc, failed, st, msg, module) ==
    /\ \E rok \in BOOLEAN :
         /\ calls' = calls \o <<failed, ResetCall(rok)>>
         /\ store' \in clientResetAll(st, rok)
    /\ IF ~desc.Required
       THEN /\ pc' = "range"
            /\ UNCHANGED result
       ELSE /\ result' = Error(msg, module)
            /\ pc' = "done"
    /\ cur' = NoAlias
    /\ hash' = NoHash
    /\ UNCHANGED <<plugins, unavailablePlugins>>

\* SubStepFailed with the client.ResetAll() call lost.
SubStepFailedNoReset(pAlias, desc, failed, st, msg, module) ==
    /\ calls' = Append(calls, failed)
    /\ store' = st
    /\ IF ~desc.Required
       THEN /\ unavailablePlugins' = Append(unavailablePlugins, pAlias)
            /\ pc' = "range"
            /\ UNCHANGED result
       ELSE /\ result' = Error(msg, module)
            /\ pc' = "done"
            /\ UNCHANGED unavailablePlugins
    /\ cur' = NoAlias
    /\ hash' = NoHash
    /\ UNCHANGED plugins

\* SubStepFailed deleting the unavailable alias from the map at once, inside
\* the range, instead of recording it for the loop of lines 66-68.
SubStepFailedDeletesNow(pAlias, desc, failed, st, msg, module) ==
    /\ \E rok \in BOOLEAN :
         /\ calls' = calls \o <<failed, ResetCall(rok)>>
         /\ store' \in clientResetAll(st, rok)
    /\ IF ~desc.Required
       THEN /\ plugins' = [a \in DOMAIN plugins \ {pAlias} |-> plugins[a]]
            /\ pc' = "range"
            /\ UNCHANGED result
       ELSE /\ result' = Error(msg, module)
            /\ pc' = "done"
            /\ UNCHANGED plugins
    /\ cur' = NoAlias
    /\ hash' = NoHash
    /\ UNCHANGED unavailablePlugins

\* SubStepFailed with the error of client.ResetAll() returned instead of
\* dropped.
SubStepFailedReturnsResetError(pAlias, desc, failed, st, msg, module) ==
    /\ \E rok \in BOOLEAN :
         /\ calls' = calls \o <<failed, ResetCall(rok)>>
         /\ store' \in clientResetAll(st, rok)
         /\ IF ~rok
            THEN /\ result' = Error("unable to reset", <<>>)
                 /\ pc' = "done"
                 /\ UNCHANGED unavailablePlugins
            ELSE IF ~desc.Required
            THEN /\ unavailablePlugins' = Append(unavailablePlugins, pAlias)
                 /\ pc' = "range"
                 /\ UNCHANGED result
            ELSE /\ result' = Error(msg, module)
                 /\ pc' = "done"
                 /\ UNCHANGED unavailablePlugins
    /\ cur' = NoAlias
    /\ hash' = NoHash
    /\ UNCHANGED plugins

\* SubStepFailed with unavailablePlugins overwritten instead of appended to.
SubStepFailedOverwrites(pAlias, desc, failed, st, msg, module) ==
    /\ \E rok \in BOOLEAN :
         /\ calls' = calls \o <<failed, ResetCall(rok)>>
         /\ store' \in clientResetAll(st, rok)
    /\ IF ~desc.Required
       THEN /\ unavailablePlugins' = <<pAlias>>
            /\ pc' = "range"
            /\ UNCHANGED result
       ELSE /\ result' = Error(msg, module)
            /\ pc' = "done"
            /\ UNCHANGED unavailablePlugins
    /\ cur' = NoAlias
    /\ hash' = NoHash
    /\ UNCHANGED plugins

\* Lines 35-41, 46-52, 57-63: after the failed sub-step `failed` of the entry
\* pAlias -> desc: client.ResetAll() with its result dropped, then either
\* the alias is recorded as unavailable and the loop continues, or the error
\* is returned.
SubStepFailed(pAlias, desc, failed, st, msg, module) ==
    /\ \E rok \in BOOLEAN :
         /\ calls' = calls \o <<failed, ResetCall(rok)>>
         /\ store' \in clientResetAll(st, rok)
    /\ IF ~desc.Required
       THEN /\ unavailablePlugins' = Append(unavailablePlugins, pAlias)
            /\ pc' = "range"
            /\ UNCHANGED result
       ELSE /\ result' = Error(msg, module)
            /\ pc' = "done"
            /\ UNCHANGED unavailablePlugins
    /\ cur' = NoAlias
    /\ hash' = NoHash
    /\ UNCHANGED plugins

\* Lines 30-42: the next entry of the range, and client.Download.
Download ==
    /\ pc = "range"
    /\ \E pAlias \in todo :
         LET desc == plugins[pAlias]
             arg  == <<desc.ModuleName, desc.Version>>
         IN  /\ todo' = todo \ {pAlias}
             /\ \/ /\ SubAllows(pAlias, "Download", TRUE)
                   /\ \E h \in Hashes : hash' = h
                   /\ calls' = Append(calls, Call("Download", pAlias, arg, TRUE))
                   /\ store' \in clientDownload(store, desc.ModuleName, TRUE)
                   /\ cur' = pAlias
                   /\ pc' = "check"
                   /\ UNCHANGED <<plugins, unavailablePlugins, result>>
                \/ \E st \in clientDownload(store, desc.ModuleName, FALSE) :
                     /\ SubAllows(pAlias, "Download", FALSE)
                     /\ SubStepFailed(pAlias, desc, Call("Download", pAlias, arg, FALSE), st,
                                   "unable to download plugin", desc.ModuleName)
    /\ UNCHANGED <<aux, fn, given, isNil, localPlugins, uniq, errs, durable>>

\* Check with the error of client.Check ignored: the archive is unpacked
\* whatever the integrity check says.
CheckIgnoresError ==
    /\ pc = "check"
    /\ LET desc == plugins[cur]
           arg  == <<desc.ModuleName, desc.Version, hash>>
       IN  \E ok \in BOOLEAN :
             /\ SubAllows(cur, "Check", ok)
             /\ calls' = Append(calls, Call("Check", cur, arg, ok))
             /\ store' \in clientCheck(store, desc.ModuleName, ok)
             /\ pc' = "unzip"
             /\ UNCHANGED <<plugins, cur, hash, unavailablePlugins, result>>
    /\ UNCHANGED <<aux, fn, given, isNil, localPlugins, todo, uniq, errs, durable>>

\* Lines 44-53: client.Check with the hash Download returned.
Check ==
    /\ pc = "check"
    /\ LET desc == plugins[cur]
           arg  == <<desc.ModuleName, desc.Version, hash>>
       IN  \/ /\ SubAllows(cur, "Check", TRUE)
              /\ calls' = Append(calls, Call("Check", cur, arg, TRUE))
              /\ store' \in clientCheck(store, desc.ModuleName, TRUE)
              /\ pc' = "unzip"
              /\ UNCHANGED <<plugins, cur, hash, unavailablePlugins, result>>
           \/ \E st \in clientCheck(store, desc.ModuleName, FALSE) :
                /\ SubAllows(cur, "Check", FALSE)
                /\ SubStepFailed(cur, desc, Call("Check", cur, arg, FALSE), st,
                              "unable to check archive integrity of the plugin",
                              desc.ModuleName)
    /\ UNCHANGED <<aux, fn, given, isNil, localPlugins, todo, uniq, errs, durable>>

\* Lines 55-64: client.Unzip; on success the iteration ends.
Unzip ==
    /\ pc = "unzip"
    /\ LET desc == plugins[cur]
           arg  == <<desc.ModuleName, desc.Version>>
       IN  \/ /\ SubAllows(cur, "Unzip", TRUE)
              /\ calls' = Append(calls, Call("Unzip", cur, arg, TRUE))
              /\ store' \in clientUnzip(store, desc.ModuleName, TRUE)
              /\ pc' = "range"
              /\ cur' = NoAlias
              /\ hash' = NoHash
              /\ UNCHANGED <<plugins, unavailablePlugins, result>>
           \/ \E st \in clientUnzip(store, desc.ModuleName, FALSE) :
                /\ SubAllows(cur, "Unzip", FALSE)
                /\ SubStepFailed(cur, desc, Call("Unzip", cur, arg, FALSE), st,
                              "unable to unzip archive", <<>>)
    /\ UNCHANGED <<aux, fn, given, isNil, localPlugins, todo, uniq, errs, durable>>

\* RemoveUnavailable deleting every alias of the map.
RemoveAll(m, unavailable) == [a \in {} |-> m[a]]

\* RemoveUnavailable with the delete lost.
RemoveNothing(m, unavailable) == m

\* Lines 66-68: delete(plugins, pAlias) for every unavailable alias.
RemoveUnavailable(m, unavailable) ==
    [a \in DOMAIN m \ {unavailable[i] : i \in DOMAIN unavailable} |-> m[a]]

\* WriteState with the client.ResetAll() of line 72 lost.
WriteStateNoReset ==
    /\ pc = "range"
    /\ todo = {}
    /\ plugins' = RemoveUnavailable(plugins, unavailablePlugins)
    /\ \/ /\ calls' = Append(calls, Call("WriteState", NoAlias, plugins', TRUE))
          /\ durable' = clientWriteState(durable, plugins', TRUE)
          /\ result' = Ok
       \/ /\ calls' = Append(calls, Call("WriteState", NoAlias, plugins', FALSE))
          /\ durable' = clientWriteState(durable, plugins', FALSE)
          /\ result' = Error("unable to write plugins state", <<>>)
    /\ pc' = "done"
    /\ UNCHANGED <<aux, fn, given, isNil, localPlugins, todo, cur, hash,
                   unavailablePlugins, uniq, errs, store>>

\* Lines 66-76: the range is over; the unavailable aliases are deleted from
\* the map and client.WriteState(plugins) persists it; a failed write is
\* followed by client.ResetAll().
WriteState ==
    /\ pc = "range"
    /\ todo = {}
    /\ plugins' = RemoveUnavailable(plugins, unavailablePlugins)
    /\ \/ /\ Allows(fate.write, TRUE)
          /\ calls' = Append(calls, Call("WriteState", NoAlias, plugins', TRUE))
          /\ durable' = clientWriteState(durable, plugins', TRUE)
          /\ result' = Ok
          /\ UNCHANGED store
       \/ \E rok \in BOOLEAN :
            /\ Allows(fate.write, FALSE)
            /\ calls' = calls \o <<Call("WriteState", NoAlias, plugins', FALSE), ResetCall(rok)>>
            /\ durable' = clientWriteState(durable, plugins', FALSE)
            /\ store' \in clientResetAll(store, rok)
            /\ result' = Error("unable to write plugins state", <<>>)
    /\ pc' = "done"
    /\ UNCHANGED <<aux, fn, given, isNil, localPlugins, todo, cur, hash,
                   unavailablePlugins, uniq, errs>>

\* ---------------------------------------------------- SetupLocalPlugins

\* Lines 126-143: the body of the range of SetupLocalPlugins for the entry
\* pAlias -> descriptor, given what ReadManifest returns for its module; acc
\* holds the uniq set and the errs list.
checkLocalEntry(pAlias, descriptor, acc, read) ==
    LET e1 == IF descriptor.ModuleName = <<>>
              THEN Append(acc.errs, Violation("plugin name is missing", pAlias, <<>>))
              ELSE acc.errs
    IN  IF HasPrefix(descriptor.ModuleName, Slash) \/ HasSuffix(descriptor.ModuleName, Slash)
        THEN [uniq |-> acc.uniq,
              errs |-> Append(e1, Violation("plugin name should not start or end with a /",
                                            pAlias, <<>>))]
        ELSE IF descriptor.ModuleName \in acc.uniq
        THEN [uniq |-> acc.uniq,
              errs |-> Append(e1, Violation("only one version of a plugin is allowed, there is a duplicate",
                                            "", descriptor.ModuleName))]
        ELSE [uniq |-> acc.uniq \cup {descriptor.ModuleName},
              errs |-> e1 \o checkLocalPluginManifest(descriptor, read)]

\* Lines 122-146: the range of SetupLocalPlugins visiting the keys in
\* `order`, reads[name] being what ReadManifest returns for the module name.
RECURSIVE checkLocalLoop(_, _, _, _)
checkLocalLoop(m, order, acc, reads) ==
    IF order = <<>> THEN acc
    ELSE checkLocalLoop(m, Tail(order),
                        checkLocalEntry(Head(order), m[Head(order)], acc,
                                        reads[m[Head(order)].ModuleName]),
                        reads)

\* LocalEntry returning the error of checkLocalPluginManifest at once
\* instead of appending it.
LocalEntryFailsFast ==
    /\ pc = "local"
    /\ \E pAlias \in todo, read \in ReadManifestResults :
         LET acc == checkLocalEntry(pAlias, localPlugins[pAlias],
                                    [uniq |-> uniq, errs |-> errs], read)
         IN  /\ todo' = todo \ {pAlias}
             /\ uniq' = acc.uniq
             /\ errs' = acc.errs
             /\ IF acc.uniq # uniq /\ acc.errs # errs
                THEN pc' = "done" /\ result' = Error("errors occurred", <<>>)
                ELSE UNCHANGED <<pc, result>>
    /\ UNCHANGED <<aux, fn, given, isNil, plugins, localPlugins, cur, hash,
                   unavailablePlugins, calls, store, durable>>

\* Lines 125-144: one iteration of the range of SetupLocalPlugins.
LocalEntry ==
    /\ pc = "local"
    /\ \E pAlias \in todo, read \in ReadManifestResults :
         LET acc == checkLocalEntry(pAlias, localPlugins[pAlias],
                                    [uniq |-> uniq, errs |-> errs], read)
         IN  /\ todo' = todo \ {pAlias}
             /\ uniq' = acc.uniq
             /\ errs' = acc.errs
    /\ UNCHANGED <<aux, fn, given, isNil, plugins, localPlugins, pc, cur, hash,
                   unavailablePlugins, result, calls, store, durable>>

\* Lines 118-120 and 146: a nil map returns nil; after the range,
\* errs.ErrorOrNil().
LocalReturn ==
    /\ pc = "local"
    /\ todo = {}
    /\ result' = IF isNil \/ errs = <<>> THEN Ok ELSE Error("errors occurred", <<>>)
    /\ pc' = "done"
    /\ UNCHANGED <<aux, fn, given, isNil, plugins, localPlugins, todo, cur, hash,
                   unavailablePlugins, uniq, errs, calls, store, durable>>

Next ==
    \/ CheckConfiguration
    \/ CleanArchives
    \/ Download
    \/ Check
    \/ Unzip
    \/ WriteState
    \/ LocalEntry
    \/ LocalReturn

Spec == Init /\ [][Next]_vars

\* ------------------------------------------------- the validation alone

\* checkRemotePluginsConfiguration and SetupLocalPlugins on every mapping:
\* the runs of Spec up to the end of validation.
NextValidation ==
    \/ CheckConfiguration
    \/ LocalEntry
    \/ LocalReturn

SpecValidation == Init /\ [][NextValidation]_vars

\* ------------------------------------- checkLocalPluginManifest alone

\* What ReadManifest may return: an error, or any manifest.
AllReadResults == {[ok |-> FALSE]} \cup {[ok |-> TRUE, m |-> m] : m \in Manifests}

\* The module names SetupLocalPlugins passes on to checkLocalPluginManifest:
\* those that got past the test of line 130.
CheckedModuleNames ==
    {n \in ModuleNames : ~(HasPrefix(n, Slash) \/ HasSuffix(n, Slash))}

InitManifest ==
    /\ fn = "checkLocalPluginManifest"
    /\ pc = "manifest"
    /\ manifest \in [moduleName : CheckedModuleNames, read : AllReadResults]
    /\ plugins = EmptyMap
    /\ localPlugins = EmptyMap
    /\ given = EmptyMap
    /\ isNil = FALSE
    /\ todo = {}
    /\ cur = NoAlias
    /\ hash = NoHash
    /\ unavailablePlugins = <<>>
    /\ uniq = {}
    /\ errs = <<>>
    /\ result = Running
    /\ calls = <<>>
    /\ store = {}
    /\ durable = <<>>
    /\ run = "first"
    /\ durableBefore = <<>>
    /\ fate = FreeFate(EmptyMap)

\* Lines 149-195: one call of checkLocalPluginManifest; errs is the list of
\* the error it returns.
CheckLocalPluginManifestCall ==
    /\ pc = "manifest"
    /\ errs' = checkLocalPluginManifest([ModuleName |-> manifest.moduleName], manifest.read)
    /\ result' = IF errs' = <<>> THEN Ok ELSE Error("errors occurred", <<>>)
    /\ pc' = "done"
    /\ UNCHANGED <<aux, fn, given, isNil, plugins, localPlugins, todo, cur, hash,
                   unavailablePlugins, uniq, calls, store, durable>>

NextManifest == CheckLocalPluginManifestCall

SpecManifest == InitManifest /\ [][NextManifest]_vars

\* ------------------------------------------------ two calls in sequence

\* The caller calls SetupRemotePlugins (line 16) a second time with the same
\* mapping, after a first call in which every Client call succeeded; the
\* store and the persisted state are what the first call left.
SetupRemotePluginsAgain ==
    /\ fn = "SetupRemotePlugins"
    /\ pc = "done"
    /\ run = "first"
    /\ result = Ok
    /\ \A i \in DOMAIN calls : calls[i].ok
    /\ run' = "second"
    /\ durableBefore' = durable
    /\ fate' = FreeFate(plugins)
    /\ pc' = "start"
    /\ todo' = {}
    /\ cur' = NoAlias
    /\ hash' = NoHash
    /\ unavailablePlugins' = <<>>
    /\ errs' = <<>>
    /\ result' = Running
    /\ calls' = <<>>
    /\ UNCHANGED <<fn, given, isNil, plugins, localPlugins, uniq, store, durable,
                   manifest>>

NextTwice ==
    \/ Next
    \/ SetupRemotePluginsAgain

SpecTwice == Init /\ [][NextTwice]_vars

\* ------------------------------------------------------------ properties

Remote == fn = "SetupRemotePlugins"

Returned == pc = "done"

SubSteps == {"Download", "Check", "Unzip"}

\* The error SetupRemotePlugins returns when the sub-step op fails for a
\* required plugin.
SubStepError(op) ==
    CASE op = "Download" -> "unable to download plugin"
      [] op = "Check" -> "unable to check archive integrity of the plugin"
      [] op = "Unzip" -> "unable to unzip archive"

\* Call i is a failed Download, Check or Unzip.
FailedSubStep(i) == calls[i].op \in SubSteps /\ ~calls[i].ok

RequiredFailure(i) == FailedSubStep(i) /\ given[calls[i].alias].Required

OptionalFailure(i) == FailedSubStep(i) /\ ~given[calls[i].alias].Required

\* Some call of the run is op, for pAlias, with outcome ok.
Called(op, pAlias, ok) ==
    \E i \in DOMAIN calls : calls[i].op = op /\ calls[i].alias = pAlias /\ calls[i].ok = ok

NoCall(op) == \A i \in DOMAIN calls : calls[i].op # op

\* The aliases one of whose sub-steps failed.
FailedAliases == {a \in DOMAIN given : \E i \in DOMAIN calls : FailedSubStep(i) /\ calls[i].alias = a}

\* C1: a failed Download, Check or Unzip of a required reference is followed
\* by ResetAll and by nothing else: the run has returned the sub-step's
\* error, no WriteState was made, no later reference was touched, and no
\* further step can be taken.
C1_RequiredFailureAborts ==
    \A i \in DOMAIN calls :
        RequiredFailure(i) =>
            /\ Len(calls) = i + 1
            /\ calls[i + 1].op = "ResetAll"
            /\ Returned
            /\ result.err = SubStepError(calls[i].op)
            /\ calls[i].op # "Unzip" => result.module = given[calls[i].alias].ModuleName
            /\ NoCall("WriteState")
            /\ durable = <<>>
            /\ ~ENABLED Next

\* A required reference failed its Check while another reference was still to
\* be processed.
C1_Witness ==
    /\ Returned
    /\ todo # {}
    /\ \E i \in DOMAIN calls : RequiredFailure(i) /\ calls[i].op = "Check"

\* C2: every failure of a non-required reference is followed by ResetAll; and
\* a finished run in which some non-required reference failed, no required
\* one did, and CleanArchives and WriteState did not fail, returned success
\* after visiting every reference, with the failed aliases absent from the
\* mapping and from the mapping WriteState was given and persisted.
C2_OptionalFailureIsSkipped ==
    /\ \A i \in DOMAIN calls :
           OptionalFailure(i) => i < Len(calls) /\ calls[i + 1].op = "ResetAll"
    /\ ( /\ Remote
         /\ Returned
         /\ \E i \in DOMAIN calls : OptionalFailure(i)
         /\ \A i \in DOMAIN calls : ~RequiredFailure(i)
         /\ \A i \in DOMAIN calls :
                calls[i].op \in {"CleanArchives", "WriteState"} => calls[i].ok )
       => /\ result = Ok
          /\ \A a \in DOMAIN given : \E i \in DOMAIN calls :
                 calls[i].op = "Download" /\ calls[i].alias = a
          /\ calls[Len(calls)].op = "WriteState"
          /\ \A a \in FailedAliases :
                 /\ a \notin DOMAIN plugins
                 /\ a \notin DOMAIN calls[Len(calls)].arg
                 /\ a \notin DOMAIN durable[1]
          /\ (FailedAliases = DOMAIN given => durable = <<EmptyMap>>)

\* A non-required reference failed, a later reference was then downloaded,
\* and the run returned success.
C2_Witness ==
    /\ Returned
    /\ result = Ok
    /\ \E i, j \in DOMAIN calls :
           /\ OptionalFailure(i)
           /\ i < j
           /\ calls[j].op = "Download"
           /\ calls[j].ok

\* C3: when SetupRemotePlugins returns success, every alias left in the
\* mapping had Download, then Check, then Unzip succeed in this run, every
\* alias whose Unzip succeeded is left with its reference unchanged, and the
\* one WriteState call was given exactly that mapping.
C3_SuccessPostcondition ==
    (Remote /\ Returned /\ result = Ok) =>
        /\ \A a \in DOMAIN plugins :
               \E i, j, k \in DOMAIN calls :
                   /\ i < j /\ j < k
                   /\ calls[i] = Call("Download", a, <<given[a].ModuleName, given[a].Version>>, TRUE)
                   /\ calls[j].op = "Check" /\ calls[j].alias = a /\ calls[j].ok
                   /\ calls[k] = Call("Unzip", a, <<given[a].ModuleName, given[a].Version>>, TRUE)
        /\ \A a \in DOMAIN given :
               /\ Called("Unzip", a, TRUE) => a \in DOMAIN plugins /\ plugins[a] = given[a]
               /\ a \in FailedAliases => a \notin DOMAIN plugins
        /\ Cardinality({i \in DOMAIN calls : calls[i].op = "WriteState"}) = 1
        /\ calls[Len(calls)] = Call("WriteState", NoAlias, plugins, TRUE)
        /\ durable = <<plugins>>

\* A successful run that kept one reference and dropped another.
C3_Witness ==
    /\ Remote
    /\ Returned
    /\ result = Ok
    /\ DOMAIN plugins # {}
    /\ DOMAIN plugins # DOMAIN given

\* The errors SetupRemotePlugins returns once the range over the references
\* has started.
LateErrors ==
    {SubStepError(op) : op \in SubSteps} \cup {"unable to write plugins state"}

\* C4 as claimed: a run that returns an error after per-reference processing
\* has started leaves nothing in the plugin store, whatever ResetAll returned.
C4_Original ==
    (Remote /\ Returned /\ result.err \in LateErrors) => store = {}

\* C4, amended: a run that returns an error after per-reference processing
\* has started made ResetAll its last Client call, right after the call that
\* failed, and when that ResetAll succeeded the plugin store is empty.
C4_StoreEmptyWhenResetSucceeds ==
    (Remote /\ Returned /\ result.err \in LateErrors) =>
        /\ Len(calls) >= 2
        /\ calls[Len(calls)].op = "ResetAll"
        /\ calls[Len(calls) - 1].op \in SubSteps \cup {"WriteState"}
        /\ ~calls[Len(calls) - 1].ok
        /\ calls[Len(calls)].ok => store = {}

\* A reference was unpacked, a later call failed, ResetAll succeeded and the
\* run returned the error.
C4_Witness ==
    /\ Remote
    /\ Returned
    /\ result.err \in LateErrors
    /\ \E i \in DOMAIN calls : calls[i].op = "Unzip" /\ calls[i].ok
    /\ calls[Len(calls)] = ResetCall(TRUE)
    /\ store = {}

\* C5: once validation has reported a violation, SetupRemotePlugins has
\* returned "invalid configuration" without any Client call: the call list is
\* empty, the store, the durable state and the mapping are untouched, and no
\* further step can be taken.
C5_InvalidConfigurationNoClientCall ==
    (Remote /\ errs # <<>>) =>
        /\ Returned
        /\ result = Error("invalid configuration", <<>>)
        /\ calls = <<>>
        /\ store = {}
        /\ durable = <<>>
        /\ plugins = given
        /\ ~ENABLED Next

\* Two aliases of module f, one required and one not, were rejected.
C5_Witness ==
    /\ Remote
    /\ Returned
    /\ DOMAIN given = {"a", "b"}
    /\ given["a"].ModuleName = <<"f">> /\ given["a"].Required
    /\ given["b"].ModuleName = <<"f">> /\ ~given["b"].Required
    /\ \E i \in DOMAIN errs : errs[i].module = <<"f">>

\* C6 as claimed: after any run the caller's mapping is what it was before.
C6_Original ==
    Returned => IF Remote THEN plugins = given ELSE localPlugins = given

\* C6, amended: SetupLocalPlugins never changes its mapping.
\* SetupRemotePlugins never changes or adds an entry; it deletes entries only
\* when the range over the references is over, just before WriteState, and
\* those are exactly the non-required references one of whose sub-steps
\* failed; a run that returns earlier leaves the mapping as it was.
C6_MappingLosesOnlyUnavailable ==
    /\ ~Remote => localPlugins = given /\ plugins = EmptyMap
    /\ Remote =>
          /\ DOMAIN plugins \subseteq DOMAIN given
          /\ \A a \in DOMAIN plugins : plugins[a] = given[a]
          /\ DOMAIN given \ DOMAIN plugins =
                 IF NoCall("WriteState") THEN {} ELSE FailedAliases
          /\ \A a \in DOMAIN given \ DOMAIN plugins : ~given[a].Required

\* The run returned the WriteState error and the caller's mapping has lost
\* an entry.
C6_Witness ==
    /\ Remote
    /\ Returned
    /\ result.err = "unable to write plugins state"
    /\ plugins # given

\* A module name that starts or ends with "/".
BadShape(name) == name # <<>> /\ (name[1] = "/" \/ name[Len(name)] = "/")

\* errs holds a duplicate-module message for the module name.
DuplicateReported(name) ==
    \E i \in DOMAIN errs :
        /\ errs[i].msg = "only one version of a plugin is allowed, there is a duplicate"
        /\ errs[i].module = name

\* errs holds a name-shape message for the alias.
ShapeReported(pAlias) ==
    \E i \in DOMAIN errs :
        /\ errs[i].msg = "plugin name should not start or end with a /"
        /\ errs[i].alias = pAlias

\* Two entries of the mapping have the same module name.
SharedName(a, b) == a # b /\ given[a].ModuleName = given[b].ModuleName

\* C7 as claimed: when two entries share a module name, validation reports a
\* duplicate-module violation for it and no Client call is made.
C7_Original ==
    (Remote /\ pc # "start") =>
        \A a, b \in DOMAIN given :
            SharedName(a, b) =>
                /\ DuplicateReported(given[a].ModuleName)
                /\ calls = <<>>

\* C7, amended: when two entries share a module name, validation fails, the
\* run returns "invalid configuration" and no Client call is made; a
\* duplicate-module violation is reported for the name exactly when the name
\* neither starts nor ends with "/", and otherwise both entries get a
\* name-shape violation.
C7_SharedNameIsRejected ==
    (Remote /\ pc # "start") =>
        \A a, b \in DOMAIN given :
            SharedName(a, b) =>
                /\ errs # <<>>
                /\ Returned
                /\ result.err = "invalid configuration"
                /\ calls = <<>>
                /\ DuplicateReported(given[a].ModuleName) <=> ~BadShape(given[a].ModuleName)
                /\ BadShape(given[a].ModuleName) => ShapeReported(a) /\ ShapeReported(b)

\* Two entries with the same, empty, module name and no version: the
\* duplicate is reported next to the missing-name and missing-version
\* violations.
C7_Witness ==
    /\ Remote
    /\ Returned
    /\ \E a, b \in DOMAIN given :
           /\ SharedName(a, b)
           /\ given[a].ModuleName = <<>>
           /\ given[a].Version = "" /\ given[b].Version = ""
           /\ DuplicateReported(<<>>)
           /\ Len(errs) = 5

\* The mappings the specification calls valid.
WellFormed(m) ==
    \A a \in DOMAIN m :
        /\ m[a].ModuleName # <<>>
        /\ m[a].Version # ""
        /\ ~BadShape(m[a].ModuleName)
        /\ \A b \in DOMAIN m : b # a => m[b].ModuleName # m[a].ModuleName

\* C8: checkRemotePluginsConfiguration returns nil, for every order in which
\* its range may visit the mapping, exactly when the mapping is nil or empty
\* or every entry has a module name, a version, no leading or trailing "/",
\* and the module names are pairwise distinct; and the errs the run computed
\* agree with that.
C8_ValidationAcceptsExactlyWellFormed ==
    Remote =>
        /\ pc = "start" =>
              \A order \in Orders(DOMAIN given) :
                  checkRemotePluginsConfiguration(isNil, given, order) = <<>>
                      <=> WellFormed(given)
        /\ pc # "start" => (errs = <<>> <=> WellFormed(given))

\* A mapping of two well-formed entries, one with a "/" inside its module
\* name, passed validation.
C8_Witness ==
    /\ Remote
    /\ pc = "clean"
    /\ errs = <<>>
    /\ Cardinality(DOMAIN given) = 2
    /\ \E a \in DOMAIN given : given[a].ModuleName = <<"f", "/", "g">>

\* C9: CleanArchives is the first Client call of a run and is made once, so
\* before any Download; every run that passed validation and returned made
\* it, with the mapping as given; and when it failed the run returned
\* "unable to clean archives" with no other Client call and nothing further
\* to do.
C9_CleanArchivesFirstAndFatal ==
    /\ \A i \in DOMAIN calls : calls[i].op = "CleanArchives" <=> i = 1
    /\ (Remote /\ Returned /\ errs = <<>>) =>
           calls # <<>> /\ calls[1].arg = given
    /\ (calls # <<>> /\ ~calls[1].ok) =>
           /\ Len(calls) = 1
           /\ Returned
           /\ result = Error("unable to clean archives", <<>>)
           /\ plugins = given
           /\ durable = <<>>
           /\ ~ENABLED Next

\* CleanArchives failed for a mapping of two references.
C9_Witness ==
    /\ Returned
    /\ result.err = "unable to clean archives"
    /\ Cardinality(DOMAIN given) = 2

\* C10: WriteState is called at most once, when every reference of the
\* mapping has either failed a sub-step or been unpacked, and no Download,
\* Check or Unzip follows it; when it failed, ResetAll is the next and last
\* call and the run returned "unable to write plugins state".
C10_WriteStateLastAndReset ==
    \A i \in DOMAIN calls :
        calls[i].op = "WriteState" =>
            /\ \A j \in DOMAIN calls : calls[j].op = "WriteState" => j = i
            /\ \A a \in DOMAIN given :
                   \E j \in 1..(i - 1) :
                       /\ calls[j].alias = a
                       /\ FailedSubStep(j) \/ (calls[j].op = "Unzip" /\ calls[j].ok)
            /\ todo = {}
            /\ Returned
            /\ calls[i].ok => Len(calls) = i /\ result = Ok
            /\ ~calls[i].ok =>
                   /\ Len(calls) = i + 1
                   /\ calls[i + 1].op = "ResetAll"
                   /\ result = Error("unable to write plugins state", <<>>)
            /\ ~ENABLED Next

\* WriteState failed after a reference had been unpacked.
C10_Witness ==
    /\ Returned
    /\ result.err = "unable to write plugins state"
    /\ \E i \in DOMAIN calls : calls[i].op = "Unzip" /\ calls[i].ok

\* Every Client call of the current run succeeded.
AllCallsOk == \A i \in DOMAIN calls : calls[i].ok

\* C11: when SetupRemotePlugins is called a second time with the same
\* mapping after a call in which every Client call succeeded, and every
\* Client call succeeds again, the second call returns nil, its WriteState is
\* given the whole mapping, and the persisted state after it is the one the
\* first call left: the mapping itself, replaced and not merged.
C11_SecondRunPersistsSameState ==
    (Remote /\ run = "second" /\ Returned /\ AllCallsOk) =>
        /\ result = Ok
        /\ plugins = given
        /\ calls[Len(calls)] = Call("WriteState", NoAlias, given, TRUE)
        /\ durableBefore = <<given>>
        /\ durable = durableBefore

\* A second fully successful call for a mapping of two references has
\* returned.
C11_Witness ==
    /\ Remote
    /\ run = "second"
    /\ Returned
    /\ AllCallsOk
    /\ Cardinality(DOMAIN given) = 2
    /\ Len(calls) = 8

Local == fn = "SetupLocalPlugins"

\* errs holds the missing-name message for the alias.
MissingNameReported(pAlias) ==
    \E i \in DOMAIN errs :
        errs[i].msg = "plugin name is missing" /\ errs[i].alias = pAlias

\* C12: SetupLocalPlugins makes no Client call and leaves the store, the
\* persisted state and its mapping as they were; it returns only when every
\* entry has been visited (each visited entry has left its name violations in
\* errs or its module name in uniq, whatever the entries before it produced),
\* and it returns an error exactly when a violation was recorded; a nil
\* mapping returns nil.
C12_LocalValidatorOnlyReports ==
    Local =>
        /\ calls = <<>>
        /\ store = {}
        /\ durable = <<>>
        /\ localPlugins = given
        /\ plugins = EmptyMap
        /\ \A a \in DOMAIN given \ todo :
               /\ given[a].ModuleName = <<>> => MissingNameReported(a)
               /\ BadShape(given[a].ModuleName) => ShapeReported(a)
               /\ ~BadShape(given[a].ModuleName) => given[a].ModuleName \in uniq
        /\ Returned =>
               /\ todo = {}
               /\ result \in {Ok, Error("errors occurred", <<>>)}
               /\ result = Ok <=> errs = <<>>
               /\ isNil => result = Ok
               /\ ~ENABLED Next

\* The manifest of the first entry visited could not be loaded, and the
\* second entry was still visited and left its own violation.
C12_Witness ==
    /\ Local
    /\ Returned
    /\ Len(errs) >= 2
    /\ errs[1].msg = "ReadManifest failed"
    /\ errs[Len(errs)].module # errs[1].module

\* The number of messages msg in errs.
Count(msg) == Cardinality({i \in DOMAIN errs : errs[i].msg = msg})

\* The manifest's runtime is one its type accepts.
RuntimeAccepted(m) ==
    \/ m.Type = "middleware" /\ m.Runtime \in {"yaegi", "wasm", ""}
    \/ m.Type = "provider" /\ m.Runtime \in {"yaegi", ""}

\* C13: for a manifest that was loaded, checkLocalPluginManifest reports no
\* type or runtime violation when the runtime is one the type accepts,
\* exactly one unsupported-runtime violation (and no unsupported-type one)
\* for any other runtime of a middleware or provider, and exactly one
\* unsupported-type violation (and no unsupported-runtime one) for any other
\* type; that violation comes first; and the DisplayName, Summary and
\* TestData checks are made in every case.
C13_TypeRuntimeOneViolationAtMost ==
    (fn = "checkLocalPluginManifest" /\ Returned /\ manifest.read.ok) =>
        LET m == manifest.read.m
            known == m.Type \in {"middleware", "provider"}
        IN  /\ Count("unsupported runtime") = IF known /\ ~RuntimeAccepted(m) THEN 1 ELSE 0
            /\ Count("unsupported type") = IF known THEN 0 ELSE 1
            /\ (~known \/ ~RuntimeAccepted(m)) =>
                   errs[1].msg \in {"unsupported runtime", "unsupported type"}
            /\ Count("missing DisplayName") = IF m.DisplayName = "" THEN 1 ELSE 0
            /\ Count("missing Summary") = IF m.Summary = "" THEN 1 ELSE 0
            /\ Count("missing TestData") = IF m.HasTestData THEN 0 ELSE 1
            /\ \A i \in DOMAIN errs : errs[i].module = manifest.moduleName
            /\ result = Ok <=> errs = <<>>

\* A provider manifest with the wasm runtime and no summary: one
\* unsupported-runtime violation, then the missing summary.
C13_Witness ==
    /\ fn = "checkLocalPluginManifest"
    /\ Returned
    /\ manifest.read.ok
    /\ manifest.read.m.Type = "provider"
    /\ manifest.read.m.Runtime = "wasm"
    /\ errs = << Violation("unsupported runtime", "", manifest.moduleName),
                 Violation("missing Summary", "", manifest.moduleName) >>

\* Call k is a sub-step of the reference of call i.
SameReference(i, k) == calls[k].op \in SubSteps /\ calls[k].alias = calls[i].alias

\* C14: in a run of SetupRemotePlugins, Download is called at most once per
\* reference; a Check is immediately preceded by the successful Download of
\* the same reference, and an Unzip by its successful Check; no sub-step of
\* a reference follows a failed sub-step of that reference; and the
\* sub-steps of a reference are not interleaved with another reference's.
C14_SubStepsOrderedPerReference ==
    Remote =>
        /\ \A i \in DOMAIN calls :
             /\ calls[i].op = "Download" =>
                    /\ calls[i].alias \in DOMAIN given
                    /\ \A j \in DOMAIN calls :
                         (calls[j].op = "Download" /\ calls[j].alias = calls[i].alias) => j = i
             /\ calls[i].op = "Check" =>
                    /\ i > 1
                    /\ calls[i - 1].op = "Download"
                    /\ calls[i - 1].alias = calls[i].alias
                    /\ calls[i - 1].ok
             /\ calls[i].op = "Unzip" =>
                    /\ i > 1
                    /\ calls[i - 1].op = "Check"
                    /\ calls[i - 1].alias = calls[i].alias
                    /\ calls[i - 1].ok
             /\ FailedSubStep(i) =>
                    \A j \in DOMAIN calls : j > i => calls[j].alias # calls[i].alias
        /\ \A i \in DOMAIN calls :
             calls[i].op \in SubSteps =>
                 \A k \in (i + 1)..Len(calls) :
                     SameReference(i, k) =>
                         \A j \in (i + 1)..(k - 1) : SameReference(i, j)
        /\ pc = "check" => calls[Len(calls)] \in
               {Call("Download", cur, <<given[cur].ModuleName, given[cur].Version>>, TRUE)}
        /\ pc = "unzip" => /\ calls[Len(calls)].op = "Check"
                           /\ calls[Len(calls)].alias = cur
                           /\ calls[Len(calls)].ok

\* A run over two references: the Check of one fails, the other goes
\* through Download, Check and Unzip, and the run succeeds.
C14_Witness ==
    /\ Remote
    /\ Returned
    /\ result = Ok
    /\ \E a, b \in DOMAIN given :
         /\ a # b
         /\ Called("Download", a, TRUE)
         /\ Called("Check", a, FALSE)
         /\ Called("Download", b, TRUE)
         /\ Called("Check", b, TRUE)
         /\ Called("Unzip", b, TRUE)

IsNotReset(c) == c.op # "ResetAll"

\* The Client calls of the run and their outcomes, ResetAll apart.
OtherCalls == SelectSeq(calls, IsNotReset)

\* The calls of the run with the outcome of every ResetAll erased.
ErasedCalls ==
    [i \in DOMAIN calls |-> IF IsNotReset(calls[i]) THEN calls[i] ELSE ResetCall(TRUE)]

\* cs with an (erased) ResetAll after every failed Download, Check, Unzip
\* and WriteState.
RECURSIVE WithResets(_)
WithResets(cs) ==
    IF cs = <<>>
    THEN <<>>
    ELSE LET c == Head(cs)
         IN  (IF ~c.ok /\ c.op \in SubSteps \cup {"WriteState"}
              THEN <<c, ResetCall(TRUE)>>
              ELSE <<c>>) \o WithResets(Tail(cs))

\* The aliases of m one of whose sub-steps fails in cs.
FailedIn(m, cs) ==
    {a \in DOMAIN m : \E i \in DOMAIN cs :
         cs[i].op \in SubSteps /\ cs[i].alias = a /\ ~cs[i].ok}

\* What a run over the mapping m that made the calls cs (ResetAll apart)
\* has returned, or Running.
ResultAfter(m, cs) ==
    IF cs = <<>>
    THEN Running
    ELSE LET c == cs[Len(cs)]
         IN  CASE c.op = "CleanArchives" /\ ~c.ok -> Error("unable to clean archives", <<>>)
               [] c.op \in SubSteps /\ ~c.ok /\ m[c.alias].Required ->
                      Error(SubStepError(c.op),
                            IF c.op = "Unzip" THEN <<>> ELSE m[c.alias].ModuleName)
               [] c.op = "WriteState" /\ ~c.ok -> Error("unable to write plugins state", <<>>)
               [] c.op = "WriteState" /\ c.ok -> Ok
               [] OTHER -> Running

\* The mapping such a run has left to its caller.
MappingAfter(m, cs) ==
    IF \E i \in DOMAIN cs : cs[i].op = "WriteState"
    THEN [a \in DOMAIN m \ FailedIn(m, cs) |-> m[a]]
    ELSE m

\* C15: the outcome of ResetAll is never propagated. The result, the
\* mapping left to the caller, the persisted state and the entries still to
\* visit are functions of the given mapping and of the other Client calls
\* with their outcomes, and so is the sequence of Client calls made,
\* ResetAll included: two runs that differ only in the outcomes of ResetAll
\* agree on all of them.
C15_ResetAllOutcomeNeverPropagated ==
    (Remote /\ calls # <<>>) =>
        LET others == OtherCalls
            mapping == MappingAfter(given, others)
        IN  /\ ErasedCalls = WithResets(others)
            /\ result = ResultAfter(given, others)
            /\ Returned <=> result # Running
            /\ plugins = mapping
            /\ {unavailablePlugins[i] : i \in DOMAIN unavailablePlugins} =
                   {a \in FailedIn(given, others) : ~given[a].Required}
            /\ todo = IF others[1].ok
                      THEN {a \in DOMAIN given :
                               \A i \in DOMAIN others : others[i].alias # a}
                      ELSE {}
            /\ durable = IF result = Ok THEN <<mapping>> ELSE <<>>

\* A run that succeeds although a ResetAll failed.
C15_Witness ==
    /\ Remote
    /\ Returned
    /\ result = Ok
    /\ \E i \in DOMAIN calls : calls[i] = ResetCall(FALSE)
    /\ \E i \in DOMAIN calls : calls[i].op = "Unzip" /\ calls[i].ok

\* ------------------------- SetupRemotePlugins with the outcomes fixed

\* SetupRemotePlugins on a mapping that passes validation, with the outcome
\* of every Client call but ResetAll fixed before the run: what is left to
\* the run is the order in which the range visits the mapping.
InitFated ==
    /\ fn = "SetupRemotePlugins"
    /\ pc = "start"
    /\ plugins \in {m \in RemoteMappings : WellFormed(m)}
    /\ localPlugins = EmptyMap
    /\ given = plugins
    /\ isNil = FALSE
    /\ todo = {}
    /\ cur = NoAlias
    /\ hash = NoHash
    /\ unavailablePlugins = <<>>
    /\ uniq = {}
    /\ errs = <<>>
    /\ result = Running
    /\ calls = <<>>
    /\ store = {}
    /\ durable = <<>>
    /\ run = "first"
    /\ durableBefore = <<>>
    /\ fate \in Fates(plugins)
    /\ manifest = NoManifest

NextRemote ==
    \/ CheckConfiguration
    \/ CleanArchives
    \/ Download
    \/ Check
    \/ Unzip
    \/ WriteState

SpecFated == InitFated /\ [][NextRemote]_vars

\* The aliases the fate makes fail.
FatedToFail == {a \in DOMAIN given : fate.sub[a] # "none"}

\* C16: for a fixed mapping and fixed outcomes of the Client calls, whatever
\* the order in which the range visits the references, the run returns, it
\* succeeds exactly when CleanArchives and WriteState succeed and no
\* required reference fails, and on success the mapping left is the given
\* one less the references that failed, which is also the persisted state.
C16_OutcomeIndependentOfOrder ==
    /\ ~Returned => ENABLED NextRemote
    /\ Returned =>
          /\ result = Ok <=>
                 /\ fate.clean = "ok"
                 /\ fate.write = "ok"
                 /\ \A a \in FatedToFail : ~given[a].Required
          /\ result = Ok =>
                 /\ plugins = [a \in DOMAIN given \ FatedToFail |-> given[a]]
                 /\ durable = <<plugins>>

\* Two optional references fated to fail, at different sub-steps, the second
\* alias visited first: the run succeeds with the empty mapping.
C16_Witness ==
    /\ Returned
    /\ result = Ok
    /\ Cardinality(DOMAIN given) = 2
    /\ FatedToFail = DOMAIN given
    /\ fate.sub[AliasNames[1]] # fate.sub[AliasNames[2]]
    /\ calls[2].alias = AliasNames[2]
    /\ plugins = EmptyMap

\* The list es holds the message msg for the alias.
ReportedIn(es, msg, pAlias) ==
    \E i \in DOMAIN es : es[i].msg = msg /\ es[i].alias = pAlias

\* The number of duplicate-module messages of es for the module name.
DuplicatesIn(es, name) ==
    Cardinality({i \in DOMAIN es :
        /\ es[i].msg = "only one version of a plugin is allowed, there is a duplicate"
        /\ es[i].module = name})

\* es is what a collect-all validation of the entries V of the mapping m
\* leaves: every entry has its own missing-name, missing-version (remote
\* only) and name-shape messages, whatever else it or its siblings produced,
\* and the entries sharing a name of good shape produce one duplicate
\* message each but the first, those sharing a name of bad shape none.
CollectsAll(m, V, es, remote) ==
    /\ \A a \in V :
         /\ ReportedIn(es, "plugin name is missing", a) <=> m[a].ModuleName = <<>>
         /\ ReportedIn(es, "plugin version is missing", a) <=>
                (remote /\ m[a].Version = "")
         /\ ReportedIn(es, "plugin name should not start or end with a /", a) <=>
                BadShape(m[a].ModuleName)
         /\ DuplicatesIn(es, m[a].ModuleName) =
                IF BadShape(m[a].ModuleName)
                THEN 0
                ELSE Cardinality({b \in V : m[b].ModuleName = m[a].ModuleName}) - 1

\* The names the uniqueness check has registered after the entries V.
Registered(m, V) == {m[a].ModuleName : a \in {b \in V : ~BadShape(m[b].ModuleName)}}

\* C17: validation collects across entries and short-circuits within one.
\* An entry whose name starts or ends with "/" gets the name-shape message,
\* is not registered for the uniqueness check and gets no duplicate message;
\* every other entry is registered and checked; and a missing name or
\* (remote) missing version is reported also for an entry that has a
\* name-shape or duplicate violation. Remote: for every visiting order, and
\* for the errs the run computed. Local: for the entries visited so far.
C17_CollectAllShortCircuitPerEntry ==
    /\ (Remote /\ pc = "start" /\ ~isNil) =>
           \A order \in Orders(DOMAIN given) :
               LET r == checkRemoteLoop(given, order, [uniq |-> {}, errs |-> <<>>])
               IN  /\ CollectsAll(given, DOMAIN given, r.errs, TRUE)
                   /\ r.uniq = Registered(given, DOMAIN given)
    /\ (Remote /\ pc # "start" /\ ~isNil) =>
           CollectsAll(given, DOMAIN given, errs, TRUE)
    /\ (Local /\ ~isNil) =>
           /\ CollectsAll(given, DOMAIN given \ todo, errs, FALSE)
           /\ uniq = Registered(given, DOMAIN given \ todo)

\* Two entries with the same module name "/f", one without a version: both
\* name-shape messages and the missing version, and no duplicate message.
C17_Witness ==
    /\ Remote
    /\ Returned
    /\ \E a, b \in DOMAIN given :
           /\ SharedName(a, b)
           /\ BadShape(given[a].ModuleName)
           /\ given[a].Version = ""
           /\ given[b].Version # ""
           /\ ReportedIn(errs, "plugin version is missing", a)
           /\ ShapeReported(a)
           /\ ShapeReported(b)
           /\ Len(errs) = 3

\* C18 as claimed: whenever SetupRemotePlugins returns success, the store
\* holds the unpacked sources of every alias of the persisted state. A run
\* in which an optional reference fails after another was unpacked violates
\* it: ResetAll wipes the store, and WriteState still persists the other.
C18_StoreHoldsPersistedPlugins ==
    (Remote /\ Returned /\ result = Ok) =>
        \A a \in DOMAIN durable[1] : Sources(durable[1][a].ModuleName) \in store

\* Call i is one whose failure is answered with ResetAll.
FailureWithReset(i) ==
    ~calls[i].ok /\ calls[i].op \in SubSteps \cup {"WriteState"}

\* C19: ResetAll is called only in response to a failure, once per failed
\* Download, Check, Unzip or WriteState: every ResetAll immediately follows
\* such a failed call and every such failed call is immediately followed by
\* a ResetAll; a run whose other calls all succeed calls no ResetAll; a
\* failed validation makes no call at all, and a failed CleanArchives is the
\* only call of its run.
C19_ResetAllOncePerFailure ==
    Remote =>
        /\ \A i \in DOMAIN calls :
             /\ calls[i].op = "ResetAll" => (i > 1 /\ FailureWithReset(i - 1))
             /\ FailureWithReset(i) => (i < Len(calls) /\ calls[i + 1].op = "ResetAll")
             /\ (calls[i].op = "CleanArchives" /\ ~calls[i].ok) => Len(calls) = 1
        /\ Cardinality({i \in DOMAIN calls : calls[i].op = "ResetAll"}) =
               Cardinality({i \in DOMAIN calls : FailureWithReset(i)})
        /\ (\A i \in DOMAIN calls : IsNotReset(calls[i]) => calls[i].ok) => NoCall("ResetAll")
        /\ errs # <<>> => calls = <<>>

\* A run with two failures, an optional reference's Unzip and WriteState,
\* and two ResetAll calls, next to a reference whose calls all succeeded.
C19_Witness ==
    /\ Remote
    /\ Returned
    /\ result = Error("unable to write plugins state", <<>>)
    /\ \E i \in DOMAIN calls : calls[i].op = "Unzip" /\ ~calls[i].ok
    /\ \E i \in DOMAIN calls : calls[i].op = "Unzip" /\ calls[i].ok
    /\ Cardinality({i \in DOMAIN calls : calls[i].op = "ResetAll"}) = 2
    /\ Len(calls) = 10

\* The multiset of the messages of es: how many times each occurs.
BagOf(es) ==
    [v \in {es[i] : i \in DOMAIN es} |-> Cardinality({i \in DOMAIN es : es[i] = v})]

\* The messages of checkRemotePluginsConfiguration for the given mapping.
RemoteViolations(order) == checkRemotePluginsConfiguration(isNil, given, order)

\* The messages of SetupLocalPlugins for the given mapping.
LocalViolations(order, reads) ==
    checkLocalLoop(given, order, [uniq |-> {}, errs |-> <<>>], reads).errs

\* What ReadManifest may return for each module name of the given mapping.
ManifestReads == [{given[a].ModuleName : a \in DOMAIN given} -> ReadManifestResults]

\* The messages of errs that checkLocalPluginManifest produced for the
\* module name.
ManifestMessages(name) ==
    SelectSeq(errs, LAMBDA e :
        /\ e.alias = ""
        /\ e.module = name
        /\ e.msg # "only one version of a plugin is allowed, there is a duplicate")

\* What ReadManifest returned for each module name in the run that left
\* errs, as far as the messages tell.
ReadsOfRun ==
    [name \in {given[a].ModuleName : a \in DOMAIN given} |->
        LET fits == {r \in ReadManifestResults :
                        checkLocalPluginManifest([ModuleName |-> name], r)
                            = ManifestMessages(name)}
        IN  IF fits = {} THEN [ok |-> FALSE] ELSE CHOOSE r \in fits : TRUE]

\* C20: the multiset of violations does not depend on the order in which
\* the range visits the mapping. Remote: every order gives the multiset of
\* one fixed order, and so do the errs a run computed. Local, with the
\* manifest of each module name fixed: every order gives the multiset of
\* one fixed order, and the errs of a run that returned have that multiset
\* for the manifests the run read.
C20_ViolationsSameMultisetInEveryOrder ==
    LET first == CHOOSE o \in Orders(DOMAIN given) : TRUE
    IN  /\ (Remote /\ pc = "start") =>
               \A o \in Orders(DOMAIN given) :
                   BagOf(RemoteViolations(o)) = BagOf(RemoteViolations(first))
        /\ (Remote /\ pc # "start" /\ calls = <<>>) =>
               BagOf(errs) = BagOf(RemoteViolations(first))
        /\ (Local /\ errs = <<>> /\ todo = DOMAIN given) =>
               \A reads \in ManifestReads :
                   \A o \in Orders(DOMAIN given) :
                       BagOf(LocalViolations(o, reads)) = BagOf(LocalViolations(first, reads))
        /\ (Local /\ Returned /\ ~isNil) =>
               BagOf(errs) = BagOf(LocalViolations(first, ReadsOfRun))

\* Two entries share the module name "f", one of them without a version:
\* the other order gives the messages in another sequence, and the same
\* multiset.
C20_Witness ==
    /\ Remote
    /\ Returned
    /\ \E a, b \in DOMAIN given :
           /\ SharedName(a, b)
           /\ ~BadShape(given[a].ModuleName)
           /\ given[a].Version = ""
           /\ given[b].Version # ""
    /\ DuplicatesIn(errs, given[AliasNames[1]].ModuleName) = 1
    /\ \E o \in Orders(DOMAIN given) :
           /\ RemoteViolations(o) # errs
           /\ BagOf(RemoteViolations(o)) = BagOf(errs)

====
